---- MODULE Spec2Model ----
\* Read path of the postgres tuple datastore (internal/datastore/postgres/query.go):
\* the query specification pgTupleQuery, its execution against the tuple table,
\* and the iterator that delivers the materialized tuples.
EXTENDS Integers, Sequences, FiniteSets, TLC

VARIABLES
    table,      \* the tuple table of the storage engine: a sequence of stored rows
    head,       \* the latest revision written to the table
    specs,      \* the pgTupleQuery values the caller holds, in creation order
    deriv,      \* history: how the caller obtained each value of specs
    exec,       \* the Execute call in flight (or the last one), with the engine handles it opened
    iters,      \* the pgTupleIterator objects created so far
    seen,       \* history: what each successful Execute returned
    lastOp,     \* history: the last iterator method called and what it returned
    panicked    \* the panic that aborted the program, "" while it runs

vars == <<table, head, specs, deriv, exec, iters, seen, lastOp, panicked>>

\* ---------------------------------------------------------------- bounds
MaxRev == 2        \* queried and written revisions range over 0..MaxRev
MaxSpecs == 3      \* query specifications the caller holds in one run
MaxExec == 2       \* Execute calls in one run

\* ---------------------------------------------------------------- data
\* Reserved deleted-transaction value of a live row (larger than every revision).
liveDeletedTxnID == 2147483647

Namespaces == {"doc", "folder"}
ObjectIDs == {"42", "43"}
Relations == {"viewer", "editor"}
Revisions == 0..MaxRev

ONR(ns, id, rel) == [Namespace |-> ns, ObjectId |-> id, Relation |-> rel]

\* Subjects used as WithUserset arguments.
Usersets == {ONR("user", "alice", "..."), ONR("user", "alice", "member")}

\* pb.RelationTuple: a resource object-and-relation and a userset subject.
RelationTuple(ns, id, rel, us) ==
    [Namespace |-> ns, ObjectId |-> id, Relation |-> rel, Userset |-> us]

\* A stored row of the tuple table.
StoredRow(t, created, deleted) ==
    [namespace |-> t.Namespace, object_id |-> t.ObjectId, relation |-> t.Relation,
     userset_namespace |-> t.Userset.Namespace,
     userset_object_id |-> t.Userset.ObjectId,
     userset_relation |-> t.Userset.Relation,
     created_transaction |-> created, deleted_transaction |-> deleted]

\* Tuples the writers append.
WriterTuples ==
    { RelationTuple("doc", "42", "viewer", ONR("user", "alice", "...")),
      RelationTuple("doc", "42", "editor", ONR("user", "bob", "...")),
      RelationTuple("folder", "43", "viewer", ONR("user", "alice", "...")) }

\* ---------------------------------------------------------------- squirrel predicates
Eq(m) == [op |-> "Eq", m |-> m]
LtOrEq(m) == [op |-> "LtOrEq", m |-> m]
Gt(m) == [op |-> "Gt", m |-> m]
Or(parts) == [op |-> "Or", parts |-> parts]

\* The package-level builder: the six selected columns from the tuple table.
queryTuples ==
    [columns |-> <<"namespace", "object_id", "relation",
                   "userset_namespace", "userset_object_id", "userset_relation">>,
     from |-> "relation_tuple",
     where |-> <<>>]

\* SelectBuilder.Where: a new builder with one more predicate, ANDed with the rest.
Where(builder, pred) == [builder EXCEPT !.where = Append(@, pred)]

\* ---------------------------------------------------------------- query specification
\* Variant: a row deleted at the queried revision itself still counts as live.
QueryTuplesDeletedGtEq(namespace, revision) ==
    [query |-> Where(Where(Where(queryTuples,
                  Eq([namespace |-> namespace])),
                  LtOrEq([created_transaction |-> revision])),
                  Or(<<Eq([deleted_transaction |-> liveDeletedTxnID]),
                       Gt([deleted_transaction |-> revision - 1])>>)),
     namespace |-> namespace,
     relation |-> ""]

\* Variant: the created-transaction bound is left out.
QueryTuplesCreatedUnbounded(namespace, revision) ==
    [query |-> Where(Where(queryTuples,
                  Eq([namespace |-> namespace])),
                  Or(<<Eq([deleted_transaction |-> liveDeletedTxnID]),
                       Gt([deleted_transaction |-> revision])>>)),
     namespace |-> namespace,
     relation |-> ""]

QueryTuples(namespace, revision) ==
    [query |-> Where(Where(Where(queryTuples,
                  Eq([namespace |-> namespace])),
                  LtOrEq([created_transaction |-> revision])),
                  Or(<<Eq([deleted_transaction |-> liveDeletedTxnID]),
                       Gt([deleted_transaction |-> revision])>>)),
     namespace |-> namespace,
     relation |-> ""]

\* Variant: a second object id replaces the first by rebuilding the request
\* from the package-level builder, which loses the revision predicates.
WithObjectIDReplacing(ptq, objectID) ==
    IF \E i \in DOMAIN ptq.query.where :
            ptq.query.where[i].op = "Eq" /\ DOMAIN ptq.query.where[i].m = {"object_id"}
    THEN [ptq EXCEPT !.query = Where(Where(queryTuples, Eq([namespace |-> ptq.namespace])),
                                     Eq([object_id |-> objectID]))]
    ELSE [ptq EXCEPT !.query = Where(@, Eq([object_id |-> objectID]))]

WithObjectID(ptq, objectID) ==
    [ptq EXCEPT !.query = Where(@, Eq([object_id |-> objectID]))]

\* Variant: the relation predicate is put on the package-level builder
\* instead of the receiver's.
WithRelationFromScratch(ptq, relation) ==
    [ptq EXCEPT !.query = Where(queryTuples, Eq([relation |-> relation])),
                !.relation = relation]

WithRelation(ptq, relation) ==
    [ptq EXCEPT !.query = Where(@, Eq([relation |-> relation])),
                !.relation = relation]

\* Variant: the subject relation is left out of the match.
WithUsersetNoRelation(ptq, userset) ==
    [ptq EXCEPT !.query = Where(@, Eq([userset_namespace |-> userset.Namespace,
                                       userset_object_id |-> userset.ObjectId]))]

WithUserset(ptq, userset) ==
    [ptq EXCEPT !.query = Where(@, Eq([userset_namespace |-> userset.Namespace,
                                       userset_object_id |-> userset.ObjectId,
                                       userset_relation |-> userset.Relation]))]

\* ---------------------------------------------------------------- storage engine
\* One comparison predicate on a row: every column of the map must compare true.
HoldsLeaf(p, row) ==
    CASE p.op = "Eq" -> \A c \in DOMAIN p.m : row[c] = p.m[c]
      [] p.op = "LtOrEq" -> \A c \in DOMAIN p.m : row[c] <= p.m[c]
      [] p.op = "Gt" -> \A c \in DOMAIN p.m : row[c] > p.m[c]

Holds(p, row) ==
    IF p.op = "Or"
    THEN \E i \in DOMAIN p.parts : HoldsLeaf(p.parts[i], row)
    ELSE HoldsLeaf(p, row)

\* A row is selected when all the WHERE predicates hold.
Selected(sql, row) == \A i \in DOMAIN sql.where : Holds(sql.where[i], row)

\* The selected columns of a row, in SELECT order.
Project(sql, row) == [i \in DOMAIN sql.columns |-> row[sql.columns[i]]]

\* The rows a request produces on a table, in table order.
RECURSIVE RunQuery(_, _)
RunQuery(sql, tbl) ==
    IF tbl = <<>> THEN <<>>
    ELSE (IF Selected(sql, Head(tbl)) THEN <<Project(sql, Head(tbl))>> ELSE <<>>)
         \o RunQuery(sql, Tail(tbl))

\* rows.Scan into a fresh RelationTuple: destinations in positional order.
Scan(cols) ==
    [Namespace |-> cols[1], ObjectId |-> cols[2], Relation |-> cols[3],
     Userset |-> [Namespace |-> cols[4], ObjectId |-> cols[5], Relation |-> cols[6]]]

\* ---------------------------------------------------------------- fixtures
\* A table with one row for every created revision in 1..3 crossed with every
\* deleted revision in {live, 2, 3}; the object id names the combination.
GridCreated == <<1, 2, 3>>
GridDeleted == <<liveDeletedTxnID, 2, 3>>
GridName == << <<"c1dL", "c1d2", "c1d3">>,
               <<"c2dL", "c2d2", "c2d3">>,
               <<"c3dL", "c3d2", "c3d3">> >>

GridTable ==
    [k \in 1..9 |->
        LET i == 1 + ((k - 1) \div 3)
            j == 1 + ((k - 1) % 3)
        IN StoredRow(RelationTuple("doc", GridName[i][j], "viewer", ONR("user", "alice", "...")),
                     GridCreated[i], GridDeleted[j])]

\* A table whose rows differ from doc:42#viewer@user:alice#... in one column each.
MixedTable ==
    << StoredRow(RelationTuple("doc", "42", "viewer", ONR("user", "alice", "...")), 1, liveDeletedTxnID),
       StoredRow(RelationTuple("doc", "42", "editor", ONR("user", "alice", "...")), 1, liveDeletedTxnID),
       StoredRow(RelationTuple("doc", "43", "viewer", ONR("user", "alice", "...")), 2, liveDeletedTxnID),
       StoredRow(RelationTuple("folder", "42", "viewer", ONR("user", "alice", "...")), 1, liveDeletedTxnID),
       StoredRow(RelationTuple("doc", "42", "viewer", ONR("group", "alice", "...")), 1, liveDeletedTxnID),
       StoredRow(RelationTuple("doc", "42", "viewer", ONR("user", "bob", "...")), 1, 2),
       StoredRow(RelationTuple("doc", "42", "viewer", ONR("user", "alice", "member")), 1, liveDeletedTxnID) >>

Fixtures == {GridTable, MixedTable}

\* ---------------------------------------------------------------- Execute
errUnableToQueryTuples == "unable to query tuples"
errClosedIterator == "unable to iterate: iterator closed"

NoErr == [msg |-> "", cause |-> ""]

\* fmt.Errorf(errUnableToQueryTuples, err)
WrapErr(cause) == [msg |-> errUnableToQueryTuples, cause |-> cause]

\* The state of an Execute call before it starts; calls counts the calls made.
ExecIdle(calls) ==
    [pc |-> "idle", slot |-> 0, calls |-> calls,
     tx |-> "none", sql |-> <<>>, via |-> "none", cursor |-> "none",
     rows |-> <<>>, nextErr |-> FALSE, tuples |-> <<>>, headAtRun |-> 0,
     iter |-> 0, err |-> NoErr,
     begins |-> 0, compiles |-> 0, runs |-> 0, rollbacks |-> 0]

\* Variant: the error return leaves without running the rollback.
ReturnErrNoRollback(e, cause) ==
    [e EXCEPT !.pc = "return", !.iter = 0, !.err = WrapErr(cause)]

\* Variant: the error is returned as it came, without the wrapping.
ReturnErrUnwrapped(e, cause) ==
    [e EXCEPT !.pc = "defer", !.iter = 0, !.err = [msg |-> cause, cause |-> ""]]

\* return nil, fmt.Errorf(errUnableToQueryTuples, err), after the defer is registered.
ReturnErr(e, cause) ==
    [e EXCEPT !.pc = "defer", !.iter = 0, !.err = WrapErr(cause)]

\* tx, err := ptq.db.Beginx(); on failure the call returns before any defer.
Beginx(e, ok) ==
    IF ok
    THEN [e EXCEPT !.pc = "compile", !.tx = "open", !.begins = @ + 1]
    ELSE [e EXCEPT !.pc = "return", !.begins = @ + 1, !.iter = 0, !.err = WrapErr("begin")]

\* sql, args, err := ptq.query.ToSql()
ToSql(e, ptq, ok) ==
    IF ok
    THEN [e EXCEPT !.pc = "run", !.sql = <<ptq.query>>, !.compiles = @ + 1]
    ELSE ReturnErr([e EXCEPT !.compiles = @ + 1], "compile")

\* rows, err := ptq.db.Queryx(sql, args...): issued on the database handle.
Queryx(e, tbl, hd, ok) ==
    IF ok
    THEN [e EXCEPT !.pc = "scan", !.via = "db", !.runs = @ + 1, !.cursor = "open",
                   !.rows = RunQuery(e.sql[1], tbl), !.headAtRun = hd]
    ELSE ReturnErr([e EXCEPT !.via = "db", !.runs = @ + 1], "run")

\* Variant: a row that fails to decode is skipped and the loop ends there.
RowsNextBreakOnScanErr(e, outcome) ==
    CASE outcome = "row" ->
            [e EXCEPT !.tuples = Append(@, Scan(Head(e.rows))), !.rows = Tail(@)]
      [] outcome = "scanErr" ->
            [e EXCEPT !.pc = "rowsErr", !.cursor = "closed", !.rows = <<>>]
      [] outcome = "end" ->
            [e EXCEPT !.pc = "rowsErr", !.cursor = "closed", !.rows = <<>>]
      [] outcome = "nextErr" ->
            [e EXCEPT !.pc = "rowsErr", !.cursor = "closed", !.rows = <<>>, !.nextErr = TRUE]

\* One turn of the loop: rows.Next(), then rows.Scan and append.
\* rows.Next() returning false (end of rows, or an error) closes the cursor.
RowsNext(e, outcome) ==
    CASE outcome = "row" ->
            [e EXCEPT !.tuples = Append(@, Scan(Head(e.rows))), !.rows = Tail(@)]
      [] outcome = "scanErr" ->
            ReturnErr(e, "scan")
      [] outcome = "end" ->
            [e EXCEPT !.pc = "rowsErr", !.cursor = "closed", !.rows = <<>>]
      [] outcome = "nextErr" ->
            [e EXCEPT !.pc = "rowsErr", !.cursor = "closed", !.rows = <<>>, !.nextErr = TRUE]

\* The outcomes rows.Next()/rows.Scan can have with the given rows pending.
RowsNextOutcomes(rows) ==
    IF rows = <<>> THEN {"end", "nextErr"} ELSE {"row", "scanErr", "nextErr"}

\* The value a panic carries; msg is "" while nothing has panicked.
NoPanic == [msg |-> "", sql |-> <<>>]

\* panic("postgres iterator double closed")
PanicDoubleClosed == [msg |-> "postgres iterator double closed", sql |-> <<>>]

\* panic(fmt.Sprintf(...)) of the finalizer; sql is the compiled request (text
\* and arguments) the finalizer closure captured.
PanicNotClosed(sql) ==
    [msg |-> "Tuple iterator garbage collected before Close() was called\n sql: %s\n args: %#v\n",
     sql |-> sql]

\* A fresh iterator over the materialized tuples, with its finalizer armed:
\* sql is what the finalizer closure captured, reachable tells whether the
\* caller still holds the iterator, finalized whether the finalizer has run.
NewIterator(tuples, sql) ==
    [tuples |-> tuples, closed |-> FALSE, err |-> "",
     sql |-> sql, reachable |-> TRUE, finalized |-> FALSE]

\* defer tx.Rollback()
Rollback(e) ==
    [e EXCEPT !.pc = "return", !.tx = "rolledback", !.rollbacks = @ + 1]

\* ---------------------------------------------------------------- iterator
\* Variant: Next hands out the buffer from its far end.
IterNextFromEnd(pti) ==
    IF pti.closed
    THEN [pti |-> [pti EXCEPT !.err = errClosedIterator], ret |-> <<>>]
    ELSE IF Len(pti.tuples) > 0
         THEN [pti |-> [pti EXCEPT !.tuples = SubSeq(@, 1, Len(@) - 1)],
               ret |-> <<pti.tuples[Len(pti.tuples)]>>]
         ELSE [pti |-> pti, ret |-> <<>>]


\* Variant: running off the end of the buffer closes the iterator.
IterNextCloseAtEnd(pti) ==
    IF pti.closed
    THEN [pti |-> [pti EXCEPT !.err = errClosedIterator], ret |-> <<>>]
    ELSE IF Len(pti.tuples) > 0
         THEN [pti |-> [pti EXCEPT !.tuples = Tail(@)], ret |-> <<Head(pti.tuples)>>]
         ELSE [pti |-> [pti EXCEPT !.closed = TRUE], ret |-> <<>>]


\* Variant: Next on a closed iterator returns nil and records nothing.
IterNextSilentAfterClose(pti) ==
    IF pti.closed
    THEN [pti |-> pti, ret |-> <<>>]
    ELSE IF Len(pti.tuples) > 0
         THEN [pti |-> [pti EXCEPT !.tuples = Tail(@)], ret |-> <<Head(pti.tuples)>>]
         ELSE [pti |-> pti, ret |-> <<>>]


\* Variant: running off the end of the buffer is recorded as an error.
IterNextErrAtEnd(pti) ==
    IF pti.closed
    THEN [pti |-> [pti EXCEPT !.err = errClosedIterator], ret |-> <<>>]
    ELSE IF Len(pti.tuples) > 0
         THEN [pti |-> [pti EXCEPT !.tuples = Tail(@)], ret |-> <<Head(pti.tuples)>>]
         ELSE [pti |-> [pti EXCEPT !.err = errClosedIterator], ret |-> <<>>]


\* Next: the new iterator state and the returned tuple (<<>> for nil).
IterNext(pti) ==
    IF pti.closed
    THEN [pti |-> [pti EXCEPT !.err = errClosedIterator], ret |-> <<>>]
    ELSE IF Len(pti.tuples) > 0
         THEN [pti |-> [pti EXCEPT !.tuples = Tail(@)], ret |-> <<Head(pti.tuples)>>]
         ELSE [pti |-> pti, ret |-> <<>>]

IterErr(pti) == pti.err

\* Variant: Close marks the iterator closed and keeps its buffer.
IterCloseKeepsTuples(pti) == [pti EXCEPT !.closed = TRUE]


\* Close on an iterator that is not closed yet.
IterClose(pti) == [pti EXCEPT !.tuples = <<>>, !.closed = TRUE]

\* ---------------------------------------------------------------- actions
Running == panicked = NoPanic

\* The caller is synchronous: it is either inside Execute or free to make a call.
CallerFree == Running /\ exec.pc \in {"idle", "done"}

Roots == {i \in DOMAIN deriv : deriv[i].op = "QueryTuples"}

\* Variant: a pointer receiver, so the refinement also changes the receiver.
DeriveInPlace(held, src, result) == Append([held EXCEPT ![src] = result], result)

\* The value a method with a value receiver returns is stored next to its receiver.
Derive(held, src, result) == Append(held, result)

\* pgd.QueryTuples(namespace, revision): the one call a run builds on.
DoQueryTuples(namespace, revision) ==
    /\ CallerFree
    /\ Len(specs) < MaxSpecs
    /\ Roots = {}
    /\ specs' = Append(specs, QueryTuples(namespace, revision))
    /\ deriv' = Append(deriv, [op |-> "QueryTuples", parent |-> 0,
                               namespace |-> namespace, revision |-> revision])
    /\ UNCHANGED <<table, head, exec, iters, seen, lastOp, panicked>>

\* specs[src].WithObjectID(objectID)
DoWithObjectID(src, objectID) ==
    /\ CallerFree
    /\ src \in DOMAIN specs
    /\ Len(specs) < MaxSpecs
    /\ specs' = Derive(specs, src, WithObjectID(specs[src], objectID))
    /\ deriv' = Append(deriv, [op |-> "WithObjectID", parent |-> src, arg |-> objectID,
                               base |-> specs[src]])
    /\ UNCHANGED <<table, head, exec, iters, seen, lastOp, panicked>>

\* specs[src].WithRelation(relation)
DoWithRelation(src, relation) ==
    /\ CallerFree
    /\ src \in DOMAIN specs
    /\ Len(specs) < MaxSpecs
    /\ specs' = Derive(specs, src, WithRelation(specs[src], relation))
    /\ deriv' = Append(deriv, [op |-> "WithRelation", parent |-> src, arg |-> relation,
                               base |-> specs[src]])
    /\ UNCHANGED <<table, head, exec, iters, seen, lastOp, panicked>>

\* specs[src].WithUserset(userset)
DoWithUserset(src, userset) ==
    /\ CallerFree
    /\ src \in DOMAIN specs
    /\ Len(specs) < MaxSpecs
    /\ specs' = Derive(specs, src, WithUserset(specs[src], userset))
    /\ deriv' = Append(deriv, [op |-> "WithUserset", parent |-> src, arg |-> userset,
                               base |-> specs[src]])
    /\ UNCHANGED <<table, head, exec, iters, seen, lastOp, panicked>>

\* A writer commits a new revision that appends one row.
WriteAppend(t) ==
    /\ Running
    /\ head < MaxRev
    /\ head' = head + 1
    /\ table' = Append(table, StoredRow(t, head + 1, liveDeletedTxnID))
    /\ UNCHANGED <<specs, deriv, exec, iters, seen, lastOp, panicked>>

\* A writer commits a new revision that soft-deletes one live row.
WriteDelete(i) ==
    /\ Running
    /\ head < MaxRev
    /\ i \in DOMAIN table
    /\ table[i].deleted_transaction = liveDeletedTxnID
    /\ head' = head + 1
    /\ table' = [table EXCEPT ![i].deleted_transaction = head + 1]
    /\ UNCHANGED <<specs, deriv, exec, iters, seen, lastOp, panicked>>

\* Execute, line 71: open the transaction.
ExecBegin(slot) ==
    /\ CallerFree
    /\ slot \in DOMAIN specs
    /\ exec.calls < MaxExec
    /\ \E ok \in BOOLEAN :
         exec' = Beginx([ExecIdle(exec.calls + 1) EXCEPT !.slot = slot], ok)
    /\ UNCHANGED <<table, head, specs, deriv, iters, seen, lastOp, panicked>>

\* Execute, line 81: compile the builder.
ExecToSql ==
    /\ Running
    /\ exec.pc = "compile"
    /\ \E ok \in BOOLEAN : exec' = ToSql(exec, specs[exec.slot], ok)
    /\ UNCHANGED <<table, head, specs, deriv, iters, seen, lastOp, panicked>>

\* Execute, line 86: run the request.
ExecQueryx ==
    /\ Running
    /\ exec.pc = "run"
    /\ \E ok \in BOOLEAN : exec' = Queryx(exec, table, head, ok)
    /\ UNCHANGED <<table, head, specs, deriv, iters, seen, lastOp, panicked>>

\* Execute, lines 92-115: one turn of the row loop.
ExecRowsNext ==
    /\ Running
    /\ exec.pc = "scan"
    /\ \E outcome \in RowsNextOutcomes(exec.rows) : exec' = RowsNext(exec, outcome)
    /\ UNCHANGED <<table, head, specs, deriv, iters, seen, lastOp, panicked>>

\* Execute, lines 116-132: check rows.Err(), then build the iterator.
ExecRowsErr ==
    /\ Running
    /\ exec.pc = "rowsErr"
    /\ IF exec.nextErr
       THEN /\ exec' = ReturnErr(exec, "rows")
            /\ iters' = iters
       ELSE /\ exec' = [exec EXCEPT !.pc = "defer", !.iter = Len(iters) + 1]
            /\ iters' = Append(iters, NewIterator(exec.tuples, exec.sql))
    /\ UNCHANGED <<table, head, specs, deriv, seen, lastOp, panicked>>

\* Execute, line 75: the deferred rollback runs as the function returns.
ExecRollback ==
    /\ Running
    /\ exec.pc = "defer"
    /\ exec' = Rollback(exec)
    /\ UNCHANGED <<table, head, specs, deriv, iters, seen, lastOp, panicked>>

\* The return values of Execute reach the caller.
ExecReturn ==
    /\ Running
    /\ exec.pc = "return"
    /\ exec' = [exec EXCEPT !.pc = "done"]
    /\ seen' = IF exec.iter # 0
               THEN seen \cup {[slot |-> exec.slot, head |-> exec.headAtRun,
                                result |-> {exec.tuples[k] : k \in DOMAIN exec.tuples}]}
               ELSE seen
    /\ UNCHANGED <<table, head, specs, deriv, iters, lastOp, panicked>>

\* The iterators the caller holds.
Held == {i \in DOMAIN iters : iters[i].reachable /\ (exec.pc = "done" \/ i # exec.iter)}

\* Variant: the iterators of one specification share a buffer, so a Next on
\* one advances them all.
DoNextShared(i) ==
    /\ CallerFree
    /\ i \in Held
    /\ iters' = [j \in DOMAIN iters |-> IterNext(iters[j]).pti]
    /\ lastOp' = [op |-> "Next", iter |-> i, ret |-> IterNext(iters[i]).ret, err |-> ""]
    /\ UNCHANGED <<table, head, specs, deriv, exec, seen, panicked>>


\* iters[i].Next()
DoNext(i) ==
    /\ CallerFree
    /\ i \in Held
    /\ iters' = [iters EXCEPT ![i] = IterNext(iters[i]).pti]
    /\ lastOp' = [op |-> "Next", iter |-> i, ret |-> IterNext(iters[i]).ret, err |-> ""]
    /\ UNCHANGED <<table, head, specs, deriv, exec, seen, panicked>>

\* Variant: Err hands the recorded error over and clears the slot.
DoErrClearing(i) ==
    /\ CallerFree
    /\ i \in Held
    /\ lastOp' = [op |-> "Err", iter |-> i, ret |-> <<>>, err |-> IterErr(iters[i])]
    /\ iters' = [iters EXCEPT ![i].err = ""]
    /\ UNCHANGED <<table, head, specs, deriv, exec, seen, panicked>>


\* iters[i].Err()
DoErr(i) ==
    /\ CallerFree
    /\ i \in Held
    /\ lastOp' = [op |-> "Err", iter |-> i, ret |-> <<>>, err |-> IterErr(iters[i])]
    /\ UNCHANGED <<table, head, specs, deriv, exec, iters, seen, panicked>>

\* Variant: Close on a closed iterator does nothing.
DoCloseIdempotent(i) ==
    /\ CallerFree
    /\ i \in Held
    /\ panicked' = panicked
    /\ iters' = [iters EXCEPT ![i] = IterClose(iters[i])]
    /\ lastOp' = [op |-> "Close", iter |-> i, ret |-> <<>>, err |-> ""]
    /\ UNCHANGED <<table, head, specs, deriv, exec, seen>>


\* iters[i].Close(): panics on an iterator that is already closed.
DoClose(i) ==
    /\ CallerFree
    /\ i \in Held
    /\ IF iters[i].closed
       THEN /\ panicked' = PanicDoubleClosed
            /\ iters' = iters
       ELSE /\ panicked' = panicked
            /\ iters' = [iters EXCEPT ![i] = IterClose(iters[i])]
    /\ lastOp' = [op |-> "Close", iter |-> i, ret |-> <<>>, err |-> ""]
    /\ UNCHANGED <<table, head, specs, deriv, exec, seen>>

\* The caller lets go of iters[i]: from here on the collector may finalize it.
DoDrop(i) ==
    /\ CallerFree
    /\ i \in Held
    /\ iters' = [iters EXCEPT ![i].reachable = FALSE]
    /\ lastOp' = [op |-> "Drop", iter |-> i, ret |-> <<>>, err |-> ""]
    /\ UNCHANGED <<table, head, specs, deriv, exec, seen, panicked>>

\* Variant: the finalizer does not look at the iterator, so an abandoned one
\* goes unnoticed.
RunFinalizerSilent(i) ==
    /\ Running
    /\ i \in DOMAIN iters
    /\ ~iters[i].reachable
    /\ ~iters[i].finalized
    /\ iters' = [iters EXCEPT ![i].finalized = TRUE]
    /\ panicked' = panicked
    /\ UNCHANGED <<table, head, specs, deriv, exec, seen, lastOp>>

\* The runtime runs the finalizer of iters[i] on its own goroutine, once, at
\* any time after the iterator became unreachable, whatever the caller is in
\* the middle of.
RunFinalizer(i) ==
    /\ Running
    /\ i \in DOMAIN iters
    /\ ~iters[i].reachable
    /\ ~iters[i].finalized
    /\ iters' = [iters EXCEPT ![i].finalized = TRUE]
    /\ panicked' = IF iters[i].closed THEN panicked ELSE PanicNotClosed(iters[i].sql)
    /\ UNCHANGED <<table, head, specs, deriv, exec, seen, lastOp>>

\* ---------------------------------------------------------------- specifications
NoOp == [op |-> "", iter |-> 0, ret |-> <<>>, err |-> ""]

InitCaller ==
    /\ specs = <<>>
    /\ deriv = <<>>
    /\ exec = ExecIdle(0)
    /\ iters = <<>>
    /\ seen = {}
    /\ lastOp = NoOp
    /\ panicked = NoPanic

\* An empty store that writers fill.
Init ==
    /\ table = <<>>
    /\ head = 0
    /\ InitCaller

\* A store loaded with one of the fixture tables.
InitFixture ==
    /\ table \in Fixtures
    /\ head = 3
    /\ InitCaller

Build ==
    \/ \E ns \in Namespaces, r \in Revisions : DoQueryTuples(ns, r)
    \/ \E s \in 1..MaxSpecs, x \in ObjectIDs : DoWithObjectID(s, x)
    \/ \E s \in 1..MaxSpecs, r \in Relations : DoWithRelation(s, r)
    \/ \E s \in 1..MaxSpecs, u \in Usersets : DoWithUserset(s, u)

Write ==
    \/ \E t \in WriterTuples : WriteAppend(t)
    \/ \E i \in 1..MaxRev : WriteDelete(i)

Execute ==
    \/ \E s \in 1..MaxSpecs : ExecBegin(s)
    \/ ExecToSql
    \/ ExecQueryx
    \/ ExecRowsNext
    \/ ExecRowsErr
    \/ ExecRollback
    \/ ExecReturn

Iterate ==
    \/ \E i \in 1..MaxExec : DoNext(i)
    \/ \E i \in 1..MaxExec : DoErr(i)
    \/ \E i \in 1..MaxExec : DoClose(i)
    \/ \E i \in 1..MaxExec : DoDrop(i)

\* Reads against a store that concurrent writers change.
NextSnapshot ==
    \/ \E ns \in Namespaces, r \in Revisions : DoQueryTuples(ns, r)
    \/ Write
    \/ Execute

SpecSnapshot == Init /\ [][NextSnapshot]_vars

\* Building specifications over a fixed store.
NextBuild == Build

SpecBuild == InitFixture /\ [][NextBuild]_vars

\* Executing specifications on a fixed store and consuming the iterators.
NextExec ==
    \/ \E ns \in Namespaces, r \in Revisions : DoQueryTuples(ns, r)
    \/ Execute
    \/ Iterate
    \/ \E i \in 1..MaxExec : RunFinalizer(i)

SpecExec == InitFixture /\ [][NextExec]_vars

\* ---------------------------------------------------------------- properties
\* The visibility rule as the data model states it.
VisibleAt(row, r) ==
    /\ row.created_transaction <= r
    /\ (row.deleted_transaction = liveDeletedTxnID \/ row.deleted_transaction > r)

\* The tuple a stored row stands for.
TupleOf(row) ==
    RelationTuple(row.namespace, row.object_id, row.relation,
                  ONR(row.userset_namespace, row.userset_object_id, row.userset_relation))

Range(f) == {f[k] : k \in DOMAIN f}

\* The set of tuples a specification produces on the current table.
ResultOf(ptq) == {Scan(r) : r \in Range(RunQuery(ptq.query, table))}

\* The rows of the current table a specification selects.
RowsOf(ptq) == {k \in DOMAIN table : Selected(ptq.query, table[k])}

\* The QueryTuples call a held specification descends from.
RECURSIVE RootOf(_)
RootOf(i) == IF deriv[i].parent = 0 THEN i ELSE RootOf(deriv[i].parent)

\* The refinements applied to a held specification since its QueryTuples call.
RECURSIVE Refinements(_)
Refinements(i) ==
    IF deriv[i].parent = 0 THEN {}
    ELSE {[op |-> deriv[i].op, arg |-> deriv[i].arg]} \cup Refinements(deriv[i].parent)

\* What one refinement asks of a row.
Satisfies(row, c) ==
    CASE c.op = "WithObjectID" -> row.object_id = c.arg
      [] c.op = "WithRelation" -> row.relation = c.arg
      [] c.op = "WithUserset" -> /\ row.userset_namespace = c.arg.Namespace
                                 /\ row.userset_object_id = c.arg.ObjectId
                                 /\ row.userset_relation = c.arg.Relation

\* The rows of the queried namespace visible at the queried revision of specs[i].
VisibleRows(i) ==
    {k \in DOMAIN table :
        /\ table[k].namespace = deriv[RootOf(i)].namespace
        /\ VisibleAt(table[k], deriv[RootOf(i)].revision)}

\* The last Execute call returned an iterator for specs[i].
Delivered(i) == exec.pc = "done" /\ exec.iter # 0 /\ exec.slot = i

\* C1: a query built by QueryTuples(namespace, R) with no refinement selects a
\* row of the namespace if and only if created <= R and (deleted = live or
\* deleted > R), and Execute returns the tuples of exactly those rows.
C1_VisibilityRule ==
    \A i \in Roots :
        /\ \A k \in DOMAIN table :
              table[k].namespace = deriv[i].namespace =>
                 (k \in RowsOf(specs[i]) <=> VisibleAt(table[k], deriv[i].revision))
        /\ Delivered(i) =>
              Range(exec.tuples) = {TupleOf(table[k]) : k \in VisibleRows(i)}

\* C1 witness: QueryTuples("doc", 2) was executed on the table that holds
\* created in {1,2,3} crossed with deleted in {live,2,3}.
C1_Witness ==
    /\ table = GridTable
    /\ \E i \in Roots :
          /\ deriv[i].revision = 2
          /\ Delivered(i)
          /\ Len(exec.tuples) = 4

\* Two results of the same specification.
SameSpec(a, b) == a.slot = b.slot

\* C2 (as stated): every Execute of the same specification at the same
\* revision returns the same set of tuples, whatever the writers did in between.
C2_NonMovingView ==
    \A a \in seen, b \in seen : SameSpec(a, b) => a.result = b.result

\* C2 (amended): Executes of the same specification whose requests ran once the
\* store's latest written revision had reached the queried revision return the
\* same set of tuples, whatever the writers did in between.
C2_NonMovingViewOfPast ==
    \A a \in seen, b \in seen :
        (/\ SameSpec(a, b)
         /\ deriv[RootOf(a.slot)].revision <= a.head
         /\ deriv[RootOf(b.slot)].revision <= b.head) => a.result = b.result

\* C2 witness: one specification executed twice at a revision already written,
\* with a writer committing in between, and a non-empty result.
C2_Witness ==
    \E a \in seen, b \in seen :
        /\ SameSpec(a, b)
        /\ deriv[RootOf(a.slot)].revision <= a.head
        /\ a.head < b.head
        /\ a.result # {}
        /\ \E k \in DOMAIN table : table[k].deleted_transaction # liveDeletedTxnID

\* C3: the request that produces the rows is issued through the transaction
\* Execute opened.
C3_RunInsideTransaction ==
    exec.via # "none" => exec.via = "tx"

\* The causes Execute can fail with.
Causes == {"begin", "compile", "run", "scan", "rows"}

\* Execute has handed its return values to the caller, or is about to.
Returning == exec.pc \in {"return", "done"}

\* C4 (state part): a transaction Execute opened has been rolled back exactly
\* once when the return values reach the caller, and never more than once.
C4_RolledBackOnExit ==
    /\ exec.rollbacks <= 1
    /\ (exec.tx = "none") = (exec.pc = "idle" \/ (exec.err.cause = "begin" /\ Returning))
    /\ Returning /\ exec.tx # "none" => exec.tx = "rolledback" /\ exec.rollbacks = 1
    /\ exec.tx = "rolledback" => exec.rollbacks = 1

\* An iterator method was called in this step.
IteratorStep == \E i \in DOMAIN iters : DoNext(i) \/ DoErr(i) \/ DoClose(i)

\* C4: every transaction Execute opens is rolled back exactly once on every
\* exit path, before the iterator or the error reaches the caller, and Next,
\* Err and Close leave the storage engine and the transaction untouched.
C4_RollbackBeforeDelivery ==
    /\ []C4_RolledBackOnExit
    /\ [][IteratorStep => UNCHANGED <<table, head, exec>>]_vars

\* C4 witness: a row-decode failure after one decoded row has been returned
\* with the transaction rolled back.
C4_Witness ==
    /\ exec.pc = "done"
    /\ exec.err.cause = "scan"
    /\ Len(exec.tuples) >= 1
    /\ exec.tx = "rolledback"
    /\ exec.rollbacks = 1

\* C5: Execute returns either an error and no iterator, or an iterator holding
\* every row of the result and no error; a failing call creates no iterator.
C5_AllOrNothing ==
    /\ exec.pc \in {"defer", "return", "done"} =>
          \/ exec.iter = 0 /\ exec.err # NoErr
          \/ exec.iter # 0 /\ exec.err = NoErr
    /\ exec.pc \in {"defer", "return"} /\ exec.iter # 0 =>
          /\ exec.iter = Len(iters)
          /\ Len(iters[exec.iter].tuples) = Len(RunQuery(specs[exec.slot].query, table))
          /\ \A k \in DOMAIN iters[exec.iter].tuples :
                iters[exec.iter].tuples[k] = Scan(RunQuery(specs[exec.slot].query, table)[k])
    /\ exec.pc \in {"defer", "return", "done"} /\ exec.iter = 0 => Len(iters) < exec.calls

\* C5 witness: the second row failed to decode after the first was decoded,
\* and the caller got an error and no iterator.
C5_Witness ==
    /\ exec.pc = "done"
    /\ exec.err = WrapErr("scan")
    /\ Len(exec.tuples) = 1
    /\ exec.iter = 0
    /\ iters = <<>>

\* C6: every failure of Execute is returned as the one "unable to query tuples"
\* error wrapping its cause, and begin, compile and run are each attempted at
\* most once in a call.
C6_OneErrorKindNoRetry ==
    /\ exec.err # NoErr =>
          /\ exec.err.msg = errUnableToQueryTuples
          /\ exec.err.cause \in Causes
          /\ exec.iter = 0
    /\ exec.begins <= 1 /\ exec.compiles <= 1 /\ exec.runs <= 1
    /\ exec.err.cause = "begin" => exec.compiles = 0 /\ exec.runs = 0
    /\ exec.err.cause = "compile" => exec.begins = 1 /\ exec.compiles = 1 /\ exec.runs = 0
    /\ exec.err.cause \in {"run", "scan", "rows"} =>
          exec.begins = 1 /\ exec.compiles = 1 /\ exec.runs = 1

\* C6 witness: the request failed to run and the error reached the caller.
C6_Witness ==
    /\ exec.pc = "done"
    /\ exec.err = WrapErr("run")
    /\ exec.runs = 1

\* C7: a refinement leaves its receiver as it was, and a specification derived
\* by WithRelation produces the receiver's result restricted to its relation,
\* whatever else was derived from the receiver before or after it.
C7_Immutable ==
    \A j \in DOMAIN specs :
        deriv[j].parent # 0 =>
            /\ specs[deriv[j].parent] = deriv[j].base
            /\ deriv[j].op = "WithRelation" =>
                  ResultOf(specs[j]) =
                     {t \in ResultOf(deriv[j].base) : t.Relation = deriv[j].arg}

\* C7 witness: two specifications derived from one base with different
\* relations, each with a non-empty result of its own.
C7_Witness ==
    \E j1 \in DOMAIN specs, j2 \in DOMAIN specs :
        /\ deriv[j1].op = "WithRelation" /\ deriv[j2].op = "WithRelation"
        /\ deriv[j1].parent = deriv[j2].parent
        /\ deriv[j1].arg # deriv[j2].arg
        /\ ResultOf(specs[j1]) # {} /\ ResultOf(specs[j2]) # {}
        /\ ResultOf(specs[j1]) # ResultOf(specs[j2])

\* The predicates the refinements added to a request.
Added(ptq) == {i \in DOMAIN ptq.query.where : i > 3}

\* C8: whatever refinements were applied, a specification selects only rows of
\* the queried namespace visible at the queried revision, so every tuple in
\* its result is the tuple of such a row.
C8_VisibilityAlwaysConjoined ==
    \A i \in DOMAIN specs :
        /\ RowsOf(specs[i]) \subseteq VisibleRows(i)
        /\ ResultOf(specs[i]) \subseteq {TupleOf(table[k]) : k \in VisibleRows(i)}

\* C8 witness: a twice-refined specification has a non-empty result while the
\* table holds a row that satisfies both refinements and is not visible.
C8_Witness ==
    \E i \in DOMAIN specs :
        /\ Cardinality(Refinements(i)) = 2
        /\ ResultOf(specs[i]) # {}
        /\ \E k \in DOMAIN table \ VisibleRows(i) :
              \A p \in Added(specs[i]) : Holds(specs[i].query.where[p], table[k])

\* C9: a specification selects exactly the visible rows that satisfy every
\* refinement applied to it, and two refinements commute.
C9_RefinementsAreConjunction ==
    /\ \A i \in DOMAIN specs :
          RowsOf(specs[i]) =
             {k \in VisibleRows(i) : \A c \in Refinements(i) : Satisfies(table[k], c)}
    /\ \A i \in DOMAIN specs, x \in ObjectIDs, r \in Relations :
          /\ WithRelation(WithObjectID(specs[i], x), r).query.where
                # WithObjectID(WithRelation(specs[i], r), x).query.where
          /\ ResultOf(WithRelation(WithObjectID(specs[i], x), r))
                = ResultOf(WithObjectID(WithRelation(specs[i], r), x))
    /\ \A i \in DOMAIN specs, x \in ObjectIDs, u \in Usersets :
          ResultOf(WithUserset(WithObjectID(specs[i], x), u))
             = ResultOf(WithObjectID(WithUserset(specs[i], u), x))
    /\ \A i \in DOMAIN specs, r \in Relations, u \in Usersets :
          ResultOf(WithUserset(WithRelation(specs[i], r), u))
             = ResultOf(WithRelation(WithUserset(specs[i], u), r))

\* C9 witness: a specification refined by a subject and one more constraint
\* selects a row, and leaves out a visible row whose subject matches in two
\* of the three fields.
C9_Witness ==
    \E i \in DOMAIN specs :
        /\ Cardinality(Refinements(i)) = 2
        /\ \E c \in Refinements(i) :
              /\ c.op = "WithUserset"
              /\ \E k \in VisibleRows(i) \ RowsOf(specs[i]) :
                    /\ table[k].userset_namespace = c.arg.Namespace
                    /\ table[k].userset_object_id = c.arg.ObjectId
                    /\ table[k].userset_relation # c.arg.Relation
                    /\ \A d \in Refinements(i) \ {c} : Satisfies(table[k], d)
        /\ RowsOf(specs[i]) # {}

\* C10: applying WithObjectID(x) a second time leaves the result set as it
\* was after the first.
C10_WithObjectIDIdempotent ==
    /\ \A i \in DOMAIN specs, x \in ObjectIDs :
          ResultOf(WithObjectID(WithObjectID(specs[i], x), x))
             = ResultOf(WithObjectID(specs[i], x))
    /\ \A j \in DOMAIN specs :
          (/\ deriv[j].op = "WithObjectID"
           /\ deriv[deriv[j].parent].op = "WithObjectID"
           /\ deriv[deriv[j].parent].arg = deriv[j].arg) =>
              RowsOf(specs[j]) = RowsOf(specs[deriv[j].parent])

\* C10 witness: WithObjectID applied twice with the same id selects a row, on a
\* table that also holds a row of that id that is not visible.
C10_Witness ==
    \E j \in DOMAIN specs :
        /\ deriv[j].op = "WithObjectID"
        /\ deriv[deriv[j].parent].op = "WithObjectID"
        /\ deriv[deriv[j].parent].arg = deriv[j].arg
        /\ specs[j] # specs[deriv[j].parent]
        /\ RowsOf(specs[j]) # {}
        /\ \E k \in DOMAIN table \ VisibleRows(j) :
              /\ table[k].object_id = deriv[j].arg
              /\ table[k].namespace = specs[j].namespace

\* The rows iters[i] has handed out so far, counted against the rows the last
\* Execute materialized (meaningful for i = exec.iter).
Taken(i) == Len(exec.tuples) - Len(iters[i].tuples)

\* C11 (state part): while the iterator the last Execute built stays open, what
\* it still holds is the materialized rows minus a prefix, in the same order.
C11_RemainingIsSuffix ==
    exec.iter # 0 /\ ~iters[exec.iter].closed =>
        /\ Len(iters[exec.iter].tuples) <= Len(exec.tuples)
        /\ iters[exec.iter].tuples =
              SubSeq(exec.tuples, Taken(exec.iter) + 1, Len(exec.tuples))

\* C11: on an iterator that stays open, the k-th Next returns the k-th
\* materialized row, in the order the engine produced them, each row once and
\* none skipped; once as many rows were returned as were materialized, Next
\* returns no value; nothing but Next moves the position.
C11_InOrderEachOnce ==
    /\ []C11_RemainingIsSuffix
    /\ [][\A i \in DOMAIN iters :
            (i = exec.iter /\ ~iters[i].closed) =>
                /\ DoNext(i) =>
                      /\ ~iters'[i].closed
                      /\ IF Taken(i) < Len(exec.tuples)
                         THEN /\ lastOp'.ret = <<exec.tuples[Taken(i) + 1]>>
                              /\ Taken(i)' = Taken(i) + 1
                         ELSE /\ lastOp'.ret = <<>>
                              /\ Taken(i)' = Taken(i)
                /\ (~DoNext(i) /\ ~iters'[i].closed) =>
                      iters'[i].tuples = iters[i].tuples]_vars

\* C11 witness: an iterator over two or more rows was drained by Next, is still
\* open, and the Next after the last row returned no value.
C11_Witness ==
    /\ exec.pc = "done"
    /\ exec.iter # 0
    /\ Len(exec.tuples) >= 2
    /\ ~iters[exec.iter].closed
    /\ iters[exec.iter].tuples = <<>>
    /\ lastOp = [op |-> "Next", iter |-> exec.iter, ret |-> <<>>, err |-> ""]

\* iters[i] is open and has nothing left to hand out.
Drained(i) == ~iters[i].closed /\ iters[i].tuples = <<>>

\* C12: on a drained iterator that has not been closed, every further Next
\* returns no value, records no error (Err still reports none) and leaves the
\* iterator open and drained; nothing fatal happens.
C12_DrainedNextIsQuiet ==
    [][\A i \in DOMAIN iters :
          (Drained(i) /\ iters[i].err = "" /\ DoNext(i)) =>
              /\ lastOp'.ret = <<>>
              /\ Drained(i)'
              /\ IterErr(iters'[i]) = ""
              /\ panicked' = panicked]_vars

\* C12 witness: a one-row result was drained, Next was called again and
\* returned no value, and the iterator is open with no error recorded.
C12_Witness ==
    /\ exec.pc = "done"
    /\ exec.iter # 0
    /\ Len(exec.tuples) = 1
    /\ Drained(exec.iter)
    /\ iters[exec.iter].err = ""
    /\ lastOp = [op |-> "Next", iter |-> exec.iter, ret |-> <<>>, err |-> ""]

\* C13: every Next on a closed iterator returns no value and records the
\* use-after-close error without any fatal failure, whatever the iterator held
\* when it was closed; the Err that follows reports that error; and a Next that
\* returned a tuple was made on an iterator that was open.
C13_NextAfterCloseRecordsError ==
    [][\A i \in DOMAIN iters :
          /\ (iters[i].closed /\ DoNext(i)) =>
                /\ lastOp'.ret = <<>>
                /\ iters'[i].err = errClosedIterator
                /\ iters'[i].closed
                /\ panicked' = panicked
          /\ (DoNext(i) /\ lastOp'.ret # <<>>) => ~iters[i].closed
          /\ (iters[i].closed /\ iters[i].err # "" /\ DoErr(i)) =>
                /\ lastOp'.err = errClosedIterator
                /\ panicked' = panicked]_vars

\* C13 witness: an iterator over a non-empty result was closed, Next was called
\* on it, and the Err after that reported the use-after-close error; the
\* program is still running.
C13_Witness ==
    /\ exec.pc = "done"
    /\ exec.iter # 0
    /\ Len(exec.tuples) >= 1
    /\ iters[exec.iter].closed
    /\ lastOp = [op |-> "Err", iter |-> exec.iter, ret |-> <<>>, err |-> errClosedIterator]
    /\ panicked = NoPanic

\* C14: the first Close of an open iterator succeeds and leaves it closed; a
\* Close of an iterator that is already closed raises the double-close fatal
\* failure and never succeeds silently, whatever Next or Err calls came between.
C14_SecondCloseIsFatal ==
    [][\A i \in DOMAIN iters :
          DoClose(i) =>
              IF iters[i].closed
              THEN panicked' = PanicDoubleClosed
              ELSE /\ panicked' = NoPanic
                   /\ iters'[i].closed]_vars

\* C14 witness: an iterator was closed, Next was called on it, and the second
\* Close raised the double-close failure.
C14_Witness ==
    /\ panicked = PanicDoubleClosed
    /\ lastOp.op = "Close"
    /\ iters[lastOp.iter].closed
    /\ iters[lastOp.iter].err = errClosedIterator

\* C15: when the finalizer of an iterator Execute returned runs while the
\* iterator is still open, the fatal failure that names the missing Close (and
\* the request the iterator came from) is raised, whether the iterator was
\* untouched, partly drained or fully drained, and whatever the caller is doing.
C15_AbandonedOpenIsFatal ==
    [][\A i \in DOMAIN iters :
          (RunFinalizer(i) /\ ~iters[i].closed) =>
              /\ panicked' = PanicNotClosed(<<specs[1].query>>)
              /\ panicked' # NoPanic]_vars

\* C15 witness: the first iterator was dropped after handing out some but not
\* all of its rows, never closed, and its finalizer raised the failure while a
\* second Execute was reading rows.
C15_Witness ==
    /\ Len(iters) = 1
    /\ panicked = PanicNotClosed(<<specs[1].query>>)
    /\ ~iters[1].closed
    /\ ~iters[1].reachable
    /\ iters[1].finalized
    /\ Len(iters[1].tuples) > 0
    /\ Len(iters[1].tuples) < Len(RunQuery(specs[1].query, table))
    /\ exec.calls = 2
    /\ exec.pc = "scan"
    /\ exec.tx = "open"

\* C16: an iterator starts open with no error recorded; only Close moves it to
\* closed; closed is terminal: a closed iterator holds no buffered items, and
\* no step makes it open again or gives it items back.
C16_OpenThenClosedForGood ==
    /\ [](\A i \in DOMAIN iters : iters[i].closed => iters[i].tuples = <<>>)
    /\ [][/\ \A i \in DOMAIN iters' :
                i \notin DOMAIN iters => ~iters'[i].closed /\ iters'[i].err = ""
          /\ \A i \in DOMAIN iters :
                /\ i \in DOMAIN iters'
                /\ iters[i].closed => iters'[i].closed /\ iters'[i].tuples = <<>>
                /\ (~iters[i].closed /\ iters'[i].closed) => DoClose(i)]_vars

\* C16 witness: an iterator over a non-empty result was closed and Next was
\* called on it afterwards; it is still closed and holds nothing.
C16_Witness ==
    /\ exec.pc = "done"
    /\ exec.iter # 0
    /\ Len(exec.tuples) >= 1
    /\ iters[exec.iter].closed
    /\ iters[exec.iter].tuples = <<>>
    /\ lastOp.op = "Next"
    /\ lastOp.iter = exec.iter
    /\ panicked = NoPanic

\* C17: Err returns the recorded error, or none when none is recorded, and
\* changes nothing: not the buffer, not the open/closed state, not the error
\* slot, not any other iterator; and once the use-after-close error is
\* recorded no step clears it, so every later Err returns it.
C17_ErrOnlyObserves ==
    [][\A i \in DOMAIN iters :
          /\ DoErr(i) =>
                /\ lastOp'.err = iters[i].err
                /\ lastOp'.err \in {"", errClosedIterator}
                /\ UNCHANGED <<iters, exec, specs, table, head, panicked>>
          /\ iters[i].err = errClosedIterator =>
                /\ i \in DOMAIN iters'
                /\ iters'[i].err = errClosedIterator]_vars

\* C17 witness: the first iterator recorded the use-after-close error, a second
\* Execute ran and its iterator is open and untouched, and Err on the first
\* iterator still returns the error.
C17_Witness ==
    /\ Len(iters) = 2
    /\ lastOp = [op |-> "Err", iter |-> 1, ret |-> <<>>, err |-> errClosedIterator]
    /\ iters[1].err = errClosedIterator
    /\ ~iters[2].closed
    /\ iters[2].err = ""
    /\ iters[2].tuples # <<>>
    /\ panicked = NoPanic

\* C18: an iterator whose error slot is not empty is closed; an open iterator
\* never has an error recorded.
C18_ErrorImpliesClosed ==
    \A i \in DOMAIN iters : iters[i].err # "" => iters[i].closed

\* C18 witness: one iterator is closed with the use-after-close error recorded,
\* while another, drained and asked for more, is open with no error.
C18_Witness ==
    /\ Len(iters) = 2
    /\ iters[1].closed
    /\ iters[1].err = errClosedIterator
    /\ exec.pc = "done"
    /\ exec.iter = 2
    /\ Len(exec.tuples) >= 1
    /\ Drained(2)
    /\ iters[2].err = ""
    /\ lastOp = [op |-> "Next", iter |-> 2, ret |-> <<>>, err |-> ""]

\* C19: every row cursor Execute opened has been released, by draining it or by
\* closing it, when Execute returns, on every exit path, a row-decode failure in
\* the middle of the result set included.
C19_CursorReleasedOnReturn ==
    Returning => exec.cursor # "open"

\* The tuples a fresh Execute of a specification materializes on the table.
Materialized(ptq) ==
    [k \in 1..Len(RunQuery(ptq.query, table)) |-> Scan(RunQuery(ptq.query, table)[k])]

\* C20: each Execute builds an iterator of its own, open and holding the whole
\* result of the specification whatever happened to earlier iterators of that
\* specification; Next, Err and Close on one iterator change no other
\* iterator's items, error slot or open/closed state; Execute changes no
\* existing iterator and no step changes a specification that has been built.
C20_IteratorsIndependent ==
    [][/\ \A s \in DOMAIN specs : s \in DOMAIN specs' /\ specs'[s] = specs[s]
       /\ \A i \in DOMAIN iters :
             (DoNext(i) \/ DoErr(i) \/ DoClose(i)) =>
                 \A j \in DOMAIN iters \ {i} : iters'[j] = iters[j]
       /\ \A j \in DOMAIN iters :
             exec' # exec => j \in DOMAIN iters' /\ iters'[j] = iters[j]
       /\ \A i \in DOMAIN iters' :
             i \notin DOMAIN iters =>
                 /\ iters'[i] = NewIterator(Materialized(specs[exec.slot]), <<specs[exec.slot].query>>)
                 /\ Len(iters') = Len(iters) + 1]_vars

\* C20 witness: the one specification was executed twice; the first iterator
\* has handed out its first row and is open, the second was closed by the last
\* call, and the first still holds the rest of its rows.
C20_Witness ==
    /\ Len(specs) = 1
    /\ Len(iters) = 2
    /\ exec.pc = "done"
    /\ exec.iter = 2
    /\ Len(exec.tuples) >= 2
    /\ iters[2].closed
    /\ lastOp = [op |-> "Close", iter |-> 2, ret |-> <<>>, err |-> ""]
    /\ ~iters[1].closed
    /\ iters[1].err = ""
    /\ iters[1].tuples = Tail(exec.tuples)
    /\ panicked = NoPanic
====
